---- MODULE Spec2Model ----
(***************************************************************************)
(* Neurokernel coordination core (neurokernel/base.py): modules that run   *)
(* a step loop and synchronise through a broker, which holds every frame   *)
(* of a round until one frame per routing-table edge has arrived.          *)
(*                                                                         *)
(* The topology is built by BaseManager.connect; every module then runs    *)
(* BaseModule.run, and the broker runs Broker._data_handler on each frame  *)
(* that arrives on its ROUTER socket.                                      *)
(*                                                                         *)
(* Spec is the running system; ConnSpec is the manager before start(),     *)
(* LifeSpec (LifeFair with fairness) is start() and stop() with the        *)
(* children's side of them, RecvSpec is _sync against an arbitrary peer,   *)
(* and ObjSpec is a BaseConnectivity object on its own. LateSpec has        *)
(* connect called before and after start(), ModSpec BaseModule.add_conn,   *)
(* BrokSpec the broker against arbitrary peers, OrderSpec two sources and  *)
(* one destination, NetSpec modules constructed with any net, CtrlSpec the *)
(* control plane of a running emulation, StopSpec a manager that calls     *)
(* stop() again and again, and LoopSpec the ways out of the step loop.     *)
(* CoreSpec runs the modules of neurokernel/core.py, whose _sync keeps no  *)
(* send list, under the same broker.                                       *)
(***************************************************************************)
EXTENDS Integers, Sequences, FiniteSets, TLC

\* Steps each module executes before the model stops it.
MaxStep == 3

\* Ports on either side of a connectivity object.
MaxPorts == 2

\* Quit frames stop() has sent a child that the child has not handled yet.
MaxQuits == 2

\* Module IDs
Modules == {"M1", "M2", "M3", "M4"}
Dirs == {"+", "-", "="}

\* Broker IDs
Brokers == {"B1", "B2"}

\* the values the net setter accepts
Nets == {"none", "ctrl", "in", "out", "full"}

\* msgpack's encoding of None; payloads are naturals.
NONE == -1

VARIABLES
    routing_table,      \* BaseManager.routing_table: set of <<src, dst>>
    mod_dict,           \* BaseManager.mod_dict: the registered (started) modules
    net,                \* BaseModule.net
    in_ids,             \* BaseModule.in_ids: conn_dict['in'].keys(), a list
    out_ids,            \* BaseModule.out_ids: conn_dict['out'].keys(), a list
    putter,             \* which _put_out_data override the modules run
    pc,                 \* position of each module in run()/_sync()
    step,               \* loop iterations each module has completed
    out_data,           \* BaseModule._out_data
    in_data,            \* BaseModule._in_data
    send_ids,           \* local send_ids of _sync
    pos,                \* cursor of the for loop _sync is in
    recv_ids,           \* local recv_ids of _sync
    sock_out,           \* frames a module's DEALER sent, not yet handled by the broker
    sock_in,            \* frames the broker's ROUTER sent to a module, not yet received
    data_to_route,      \* Broker.data_to_route
    recv_coords_list,   \* Broker.recv_coords_list
    brok_dict,          \* BaseManager.brok_dict: the registered brokers
    brok_pc,            \* position of each broker process
    man_pc,             \* position of the manager (the parent process)
    remaining,          \* local recv_ids of BaseManager.stop
    ctrl_in,            \* control frames the manager's ROUTER sent to a child, not yet handled
    acks,               \* frames on the manager's ROUTER socket, not yet received
    ret,                \* the last call of a manager method and what it raised
    conn,               \* a BaseConnectivity object
    parent,             \* the module objects in the manager's process
    conn_dict,          \* BaseManager.conn_dict: the registered connectivity objects
    brok_table,         \* Broker.routing_table: the table in the broker's process
    started_rt,         \* history: the manager's routing table when start() ran
    handed,             \* history: frames a module handed to its socket in this _sync
    sent,               \* history: <<src, dst, step, data>> of every frame ever handed
    seen,               \* history: <<src, step>> of every frame a module ever took
    joined,             \* history: the modules stop() has joined
    quits               \* history: the modules this stop() has sent quit

vars == <<routing_table, mod_dict, net, in_ids, out_ids, putter, pc, step,
          out_data, in_data, send_ids, pos, recv_ids, sock_out, sock_in,
          data_to_route, recv_coords_list, brok_dict, brok_pc, man_pc,
          remaining, ctrl_in, acks, ret, conn, parent, conn_dict, brok_table,
          started_rt, handed, sent, seen, joined, quits>>

\* the manager, the control plane and the connectivity object
ctl == <<brok_dict, brok_pc, man_pc, remaining, ctrl_in, acks, ret, conn, joined,
         quits, parent, conn_dict, brok_table, started_rt>>

topo == <<routing_table, mod_dict, net, in_ids, out_ids, putter>>

----------------------------------------------------------------------------
\* Sequences as Python lists.

Range(s) == {s[i] : i \in 1..Len(s)}

\* list.remove(x) for a list without repeats
Remove(s, x) == SelectSeq(s, LAMBDA y : y # x)

\* every ordering of a finite set (the order dict.keys() may return)
Orders(S) == {s \in [1..Cardinality(S) -> S] : Range(s) = S}

----------------------------------------------------------------------------
\* BaseConnectivity: a dict of sparse matrices keyed by synapse number,
\* direction and parameter name. A matrix is its shape and the set of its
\* nonzero coordinates (the entries are 0 or 1).

\* _make_key: 'syn/dir/param'; transpose splits it again at the slashes
make_key(syn, dir, param) == <<syn, dir, param>>

\* _make_matrix: an empty sparse matrix
make_matrix(shp) == [shape |-> shp, nz |-> {}]

\* the .T of a sparse matrix
MatT(a) == [shape |-> <<a.shape[2], a.shape[1]>>, nz |-> {<<e[2], e[1]>> : e \in a.nz}]

\* BaseConnectivity.__init__: one empty 'conn' matrix per direction
BaseConnectivity(N_src, N_dest) ==
    [N_src |-> N_src, N_dest |-> N_dest, N_mult |-> 1,
     data |-> [k \in {make_key(0, "+", "conn"), make_key(0, "-", "conn")} |->
                  make_matrix(<<N_src, N_dest>>)]]

\* the shape property
shape(c) == <<c.N_src, c.N_dest>>

\* the key with its direction reversed
FlipKey(k) == make_key(k[1], IF k[2] = "+" THEN "-" ELSE "+", k[3])

\* BaseConnectivity.transpose: a new object whose matrices are the
\* transposes of this one's, stored under the keys of the other direction
transpose(c) ==
    LET n == BaseConnectivity(c.N_dest, c.N_dest)
        new == {FlipKey(k) : k \in DOMAIN c.data}
    IN [n EXCEPT !.data = [k \in DOMAIN n.data \cup new |->
                              IF k \in new THEN MatT(c.data[FlipKey(k)])
                              ELSE n.data[k]]]

\* BaseConnectivity.set with val = 1: creates the matrix if the key is new
set(c, source, dest, syn, dir, param) ==
    LET key == make_key(syn, dir, param)
        a == IF key \in DOMAIN c.data THEN c.data[key] ELSE make_matrix(shape(c))
        b == [a EXCEPT !.nz = @ \cup {<<source, dest>>}]
    IN [c EXCEPT !.data = [k \in DOMAIN c.data \cup {key} |->
                              IF k = key THEN b ELSE c.data[k]],
                 !.N_mult = IF key \notin DOMAIN c.data /\ syn + 1 > @ THEN @ + 1 ELSE @]

\* the connectivity object of the __main__ block, scaled down
NoConn == BaseConnectivity(1, 1)

----------------------------------------------------------------------------
\* BaseManager.connect

\* Connectivity IDs
Conns == {"C1"}

\* a connectivity object as the maps hold it: its ID, and "T" on a transpose
Obj(c) == <<c, "">>

\* BaseConnectivity.T: a new object holding the transpose
T(c) == <<c[1], IF c[2] = "" THEN "T" ELSE "">>

\* what the callers pass where a module or a connectivity object is expected
\* and is neither
NotAModule == "obj"
NotAConn == <<"obj", "">>

\* isinstance(m, BaseModule)
IsModule(m) == m \in Modules

\* isinstance(conn, BaseConnectivity)
IsConn(c) == c[1] \in Conns

\* a Python dict as a function; d[k] = v
EmptyDict == [k \in {} |-> Obj("C1")]
Put(d, k, v) == [x \in DOMAIN d \cup {k} |-> IF x = k THEN v ELSE d[x]]

\* BaseModule.conn_dict right after construction
NewConnDict == [in |-> EmptyDict, out |-> EmptyDict]

\* add_conn storing whatever object it is passed
add_connAny(cd, c, conn_type, id) ==
    IF conn_type \notin DOMAIN cd THEN [conn_dict |-> cd, exc |-> "KeyError"]
    ELSE [conn_dict |-> [cd EXCEPT ![conn_type] = Put(@, id, c)], exc |-> ""]

\* BaseModule.add_conn on the module's conn_dict cd: the new conn_dict and
\* the exception raised, "" when none is
add_conn(cd, c, conn_type, id) ==
    IF ~IsConn(c) THEN [conn_dict |-> cd, exc |-> "ValueError"]
    ELSE IF conn_type \notin DOMAIN cd THEN [conn_dict |-> cd, exc |-> "KeyError"]
    ELSE [conn_dict |-> [cd EXCEPT ![conn_type] = Put(@, id, c)], exc |-> ""]

\* The manager and its modules right after construction: every module has the
\* constructor's default net, no connectivity, and nothing is registered.
NewManager ==
    [rt |-> {}, mods |-> {}, conns |-> {},
     net |-> [m \in Modules |-> "none"],
     conn_dict |-> [m \in Modules |-> NewConnDict]]

\* the in and out peers of module m of manager t
Ins(t, m) == DOMAIN t.conn_dict[m]["in"]
Outs(t, m) == DOMAIN t.conn_dict[m]["out"]

\* the sending side assigned 'out' whatever it was
PromoteOutAssign(n) == "out"

\* the promotion connect applies to the sending side of a new edge
PromoteOut(n) == IF n = "none" THEN "out" ELSE IF n = "in" THEN "full" ELSE n

\* the receiving side promoted from 'in' as it is from 'out'
PromoteInAgain(n) == IF n = "none" THEN "in" ELSE IF n \in {"out", "in"} THEN "full" ELSE n

\* the promotion connect applies to the receiving side of a new edge
PromoteIn(n) == IF n = "none" THEN "in" ELSE IF n = "out" THEN "full" ELSE n

\* RoutingTable: routing_table[a, b] = 1 makes (a, b) an edge of the table,
\* and row_ids(id) and col_ids(id) are the sources and the destinations of id
SetEdge(rt, a, b) == rt \cup {<<a, b>>}
row_ids(rt, id) == {e[1] : e \in {x \in rt : x[2] = id}}
col_ids(rt, id) == {e[2] : e \in {x \in rt : x[1] = id}}

\* m.add_conn(c, conn_type, id) on module m of manager t
Wire(t, m, c, conn_type, id) ==
    [t EXCEPT !.conn_dict[m] = add_conn(@, c, conn_type, id).conn_dict]

\* the '+' or the '-' branch of connect: the routing-table entry, the
\* promotions (m_src's first), add_conn on m_src with c and on m_dest with c.T
AddEdge(t, m_src, m_dest, c, dir) ==
    LET a == IF dir = "+" THEN m_src ELSE m_dest
        b == IF dir = "+" THEN m_dest ELSE m_src
        n1 == [t.net EXCEPT ![m_src] =
                  IF dir = "+" THEN PromoteOut(@) ELSE PromoteIn(@)]
        n2 == [n1 EXCEPT ![m_dest] =
                  IF dir = "+" THEN PromoteIn(@) ELSE PromoteOut(@)]
        r == [t EXCEPT !.rt = SetEdge(@, a, b), !.net = n2]
    IN Wire(Wire(r, m_src, c, IF dir = "+" THEN "out" ELSE "in", m_dest),
            m_dest, T(c), IF dir = "+" THEN "in" ELSE "out", m_src)

\* the registration connect does before it looks at dir
Register(t, m_src, m_dest, c) ==
    [t EXCEPT !.mods = @ \cup {m_src, m_dest}, !.conns = @ \cup {c[1]}]

\* BaseManager.connect with arguments that pass its type test and a
\* direction it recognizes
connect(t, m_src, m_dest, c, dir) ==
    LET r == Register(t, m_src, m_dest, c)
    IN CASE dir = "+" -> AddEdge(r, m_src, m_dest, c, "+")
         [] dir = "-" -> AddEdge(r, m_src, m_dest, c, "-")
         [] dir = "=" ->
              LET f == [r EXCEPT
                          !.rt = SetEdge(SetEdge(@, m_src, m_dest), m_dest, m_src),
                          !.net = [@ EXCEPT ![m_src] = "full", ![m_dest] = "full"]]
              IN Wire(Wire(Wire(Wire(f, m_src, c, "out", m_dest),
                                m_dest, T(c), "in", m_src),
                           m_src, c, "in", m_dest),
                      m_dest, T(c), "out", m_src)

\* core.py's BaseManager.connect: one direction, and the modules' in_ids and
\* out_ids are attributes it reads off the routing table. The manager t has
\* these in place of the conn_dict of base.py's modules; net 'unconnected'
\* is written "none" here.
core_connect(t, m_src, m_dest, c) ==
    LET r == Register(t, m_src, m_dest, c)
        rt == SetEdge(r.rt, m_src, m_dest)
        n1 == [r.net EXCEPT ![m_src] = PromoteOut(@)]
        n2 == [n1 EXCEPT ![m_dest] = PromoteIn(@)]
        i1 == [r.in_ids EXCEPT ![m_src] = row_ids(rt, m_src)]
        o1 == [r.out_ids EXCEPT ![m_src] = col_ids(rt, m_src)]
    IN [r EXCEPT !.rt = rt, !.net = n2,
                 !.in_ids = [i1 EXCEPT ![m_dest] = row_ids(rt, m_dest)],
                 !.out_ids = [o1 EXCEPT ![m_dest] = col_ids(rt, m_dest)]]

\* the connectivity object the topologies below are built with
TheConn == Obj("C1")

\* the module objects of manager t
ModuleObjects(t) ==
    [m \in Modules |-> [net |-> t.net[m], conn_dict |-> t.conn_dict[m]]]

\* two modules joined by one connect call, in each direction
OneWay == connect(NewManager, "M1", "M2", TheConn, "+")
Back == connect(NewManager, "M1", "M2", TheConn, "-")
Pair == connect(NewManager, "M1", "M2", TheConn, "=")

\* M1 -> M2 -> M3: an out module, a full module and an in module
Chain == connect(OneWay, "M2", "M3", TheConn, "+")

\* M2 <- M1 -> M3: one out module with two destinations
FanOut == connect(OneWay, "M1", "M3", TheConn, "+")

\* M1 -> M3 <- M2: one in module with two sources
FanIn == connect(connect(NewManager, "M1", "M3", TheConn, "+"), "M2", "M3", TheConn, "+")

\* the ring of four, M1 -> M2 -> M3 -> M4 -> M1
Ring ==
    connect(connect(connect(connect(NewManager,
        "M1", "M2", TheConn, "+"), "M2", "M3", TheConn, "+"), "M3", "M4", TheConn, "+"), "M4", "M1", TheConn, "+")

----------------------------------------------------------------------------
\* BaseModule._put_out_data

\* the payload a module emits in a step: its step index
Emit(m, k) == k

\* MyModule._put_out_data: one entry per destination, in out_ids order
MyModuleOut(m) ==
    [i \in 1..Len(out_ids[m]) |-> [dst |-> out_ids[m][i], data |-> Emit(m, step[m])]]

\* other overrides: one that names no destination, one that names only the
\* first, one that names the first twice, and one that names every destination
AnyOut(m) ==
    LET all == MyModuleOut(m)
    IN IF all = <<>> THEN {<<>>}
       ELSE {<<>>, <<all[1]>>, <<all[1], all[1]>>, all}

PutOutData(m) ==
    IF net[m] \notin {"out", "full"} THEN {out_data[m]}
    ELSE IF putter = "MyModule" THEN {MyModuleOut(m)}
    ELSE AnyOut(m)

----------------------------------------------------------------------------
\* BaseModule._sync

\* _sync does nothing for these modes
NoSync(m) == net[m] \in {"none", "ctrl"}

Sends(m) == net[m] \in {"out", "full"}

Receives(m) == net[m] \in {"in", "full"}

\* where _sync stands once the send phase is over: in the receive loop, or
\* back at the top of run()'s loop
AfterOut(m) == IF Receives(m) /\ in_ids[m] # <<>> THEN "recv" ELSE "run"

\* where _sync stands once the loop over _out_data is over
AfterData(m, left) == IF left # <<>> THEN "fill" ELSE AfterOut(m)

\* where _sync stands when it is entered with outbound buffer b
AtEntry(m, b) ==
    IF NoSync(m) THEN "run"
    ELSE IF Sends(m) THEN (IF b # <<>> THEN "send" ELSE AfterData(m, out_ids[m]))
    ELSE AfterOut(m)

\* the frame _sync sends for destination d: msgpack.packb((out_id, data)),
\* sent as one part; step is history, the step the sender is in
DataFrame(m, d, v) == [dst |-> d, data |-> v, step |-> step[m], parts |-> 1]

\* the fill-in frame addressed to the module itself
FillFrameSelf(m, d) == DataFrame(m, m, NONE)

\* the frame sent to a destination the outbound buffer does not name
FillFrame(m, d) == DataFrame(m, d, NONE)

\* the None test inverted
StoredInverted(v) == v = NONE

\* the None test left out
StoredAlways(v) == TRUE

\* whether a received payload is stored in _in_data
Stored(v) == v # NONE

\* list.remove raising on every id
ExpectedNever(ids, id) == FALSE

\* whether list.remove(id) finds id in the list; it raises ValueError when
\* it does not
Expected(ids, id) == id \in Range(ids)

\* the module moves to position p; reaching "run" completes an iteration, and
\* passing the head of the receive phase resets recv_ids and _in_data
Move(m, p) ==
    /\ pc' = [pc EXCEPT ![m] = p]
    /\ step' = [step EXCEPT ![m] = IF p = "run" THEN @ + 1 ELSE @]
    /\ IF p = "recv" \/ (p = "run" /\ Receives(m))
       THEN /\ recv_ids' = [recv_ids EXCEPT ![m] = in_ids[m]]
            /\ in_data' = [in_data EXCEPT ![m] = <<>>]
       ELSE UNCHANGED <<recv_ids, in_data>>

\* the exception swallowed: the loop goes on
RaiseIgnored(m) == UNCHANGED <<pc, step, recv_ids, in_data>>

\* the exception leaves run(): the process ends
Raise(m) ==
    /\ pc' = [pc EXCEPT ![m] = "exit"]
    /\ UNCHANGED <<step, recv_ids, in_data>>

Hand(m, f) ==
    /\ sock_out' = [sock_out EXCEPT ![m] = Append(@, f)]
    /\ handed' = [handed EXCEPT ![m] = Append(@, f)]
    /\ sent' = sent \cup {<<m, f.dst, f.step, f.data>>}

\* run(): _get_in_data, run_step, _put_out_data, and the entry of _sync
RunStep(m) ==
    /\ m \in mod_dict
    /\ pc[m] = "run"
    /\ step[m] < MaxStep
    /\ \E b \in PutOutData(m) :
          /\ out_data' = [out_data EXCEPT ![m] = b]
          /\ send_ids' = [send_ids EXCEPT ![m] = IF Sends(m) THEN out_ids[m] ELSE @]
          /\ pos' = [pos EXCEPT ![m] = 1]
          /\ handed' = [handed EXCEPT ![m] = <<>>]
          /\ Move(m, AtEntry(m, b))
    /\ UNCHANGED <<topo, ctl, sock_out, sock_in, data_to_route, recv_coords_list,
                   sent, seen>>

\* one iteration of a send loop of _sync: over _out_data (send, then remove
\* the destination from send_ids), or over what is left in send_ids
SyncSend(m) ==
    /\ m \in mod_dict
    /\ pc[m] \in {"send", "fill"}
    /\ IF pc[m] = "send"
       THEN LET e == out_data[m][pos[m]]
                left == Remove(send_ids[m], e.dst)
            IN /\ Hand(m, DataFrame(m, e.dst, e.data))
               /\ IF Expected(send_ids[m], e.dst)
                  THEN /\ send_ids' = [send_ids EXCEPT ![m] = left]
                       /\ IF pos[m] < Len(out_data[m])
                          THEN /\ pos' = [pos EXCEPT ![m] = @ + 1]
                               /\ Move(m, "send")
                          ELSE /\ pos' = [pos EXCEPT ![m] = 1]
                               /\ Move(m, AfterData(m, left))
                  ELSE /\ Raise(m)
                       /\ UNCHANGED <<send_ids, pos>>
       ELSE /\ Hand(m, FillFrame(m, send_ids[m][pos[m]]))
            /\ IF pos[m] < Len(send_ids[m])
               THEN /\ pos' = [pos EXCEPT ![m] = @ + 1]
                    /\ Move(m, "fill")
               ELSE /\ pos' = [pos EXCEPT ![m] = 1]
                    /\ Move(m, AfterOut(m))
            /\ UNCHANGED send_ids
    /\ UNCHANGED <<topo, ctl, out_data, sock_in, data_to_route, recv_coords_list,
                   seen>>

\* one iteration of the receive loop of _sync
SyncRecv(m) ==
    /\ m \in mod_dict
    /\ pc[m] = "recv"
    /\ sock_in[m] # <<>>
    /\ LET f == Head(sock_in[m])
           left == Remove(recv_ids[m], f.src)
       IN /\ sock_in' = [sock_in EXCEPT ![m] = Tail(@)]
          /\ seen' = [seen EXCEPT ![m] = @ \cup {<<f.src, f.step>>}]
          /\ IF Expected(recv_ids[m], f.src)
             THEN /\ recv_ids' = [recv_ids EXCEPT ![m] = left]
                  /\ in_data' = [in_data EXCEPT ![m] =
                        IF Stored(f.data) THEN Append(@, [src |-> f.src, data |-> f.data])
                        ELSE @]
                  /\ pc' = [pc EXCEPT ![m] = IF left = <<>> THEN "run" ELSE "recv"]
                  /\ step' = [step EXCEPT ![m] = IF left = <<>> THEN @ + 1 ELSE @]
             ELSE Raise(m)
    /\ UNCHANGED <<topo, ctl, out_data, send_ids, pos, sock_out, data_to_route,
                   recv_coords_list, handed, sent>>

----------------------------------------------------------------------------
\* Broker._data_handler

\* coords handing out the very list the broker has emptied
coordsEmptied == {}

\* coords read from the table in the manager's process
coordsOfManager == routing_table

\* RoutingTable.coords of the table the broker holds
coords == brok_table

\* len(msg) of what the ROUTER hands the handler: the sender's identity and
\* the parts it sent
MsgLen(f) == 1 + f.parts

\* every frame on an edge of the routing table taken, received or not
AwaitedInTable(in_id, out_id) == <<in_id, out_id>> \in coords

\* whether the broker takes the frame into the current round
Awaited(in_id, out_id) == <<in_id, out_id>> \in recv_coords_list

\* the edge left in the list
CrossedNot(awaited, e) == awaited

\* recv_coords_list.remove((in_id, out_id))
Crossed(awaited, e) == awaited \ {e}

\* the data stream left receiving after quit
ServingAfterQuit(b) == brok_pc[b] \in {"loop", "exit"}

\* stream_data hands frames to _data_handler: from the start of the event
\* loop until the quit handler stops the stream
Serving(b) == brok_pc[b] = "loop"

\* the round declared complete with one edge still awaited
RoundDoneEarly(awaited) == Cardinality(awaited) <= 1

\* whether the round is complete, given what is still awaited
RoundDone(awaited) == awaited = {}

\* every frame routed with no payload
RoutedNone(r) == [src |-> r.src, data |-> NONE, step |-> r.step]

\* the frame the broker sends to out_id: [out_id, msgpack.packb((in_id, data))]
Routed(r) == [src |-> r.src, data |-> r.data, step |-> r.step]

\* the entries of the list addressed to d, in the order of the list
ToDest(routes, d) == LET To(r) == r.dst = d IN SelectSeq(routes, To)

\* send_multipart for every entry of the list, the last entry first
DeliverLastFirst(q, routes) ==
    [d \in DOMAIN q |->
        LET to == ToDest(routes, d)
        IN q[d] \o [k \in 1..Len(to) |-> Routed(to[Len(to) + 1 - k])]]

\* send_multipart for every entry of the list, in order
RECURSIVE Deliver(_, _)
Deliver(q, routes) ==
    IF routes = <<>> THEN q
    ELSE Deliver([q EXCEPT ![Head(routes).dst] = Append(@, Routed(Head(routes)))],
                 Tail(routes))

\* the delivered round left in the buffer
FlushedNot(routes) == routes

\* data_to_route after a round was delivered
Flushed(routes) == <<>>

DataHandler ==
    \E m \in mod_dict :
      /\ \E b \in brok_dict : Serving(b)
      /\ sock_out[m] # <<>>
      /\ LET f == Head(sock_out[m])
             take == Awaited(m, f.dst)
             routes == IF take
                       THEN Append(data_to_route,
                                   [src |-> m, dst |-> f.dst, data |-> f.data, step |-> f.step])
                       ELSE data_to_route
             awaited == IF take THEN Crossed(recv_coords_list, <<m, f.dst>>)
                        ELSE recv_coords_list
         IN /\ sock_out' = [sock_out EXCEPT ![m] = Tail(@)]
            /\ IF MsgLen(f) # 2
               THEN UNCHANGED <<sock_in, data_to_route, recv_coords_list>>
               ELSE IF RoundDone(awaited)
               THEN /\ sock_in' = Deliver(sock_in, routes)
                    /\ data_to_route' = Flushed(routes)
                    /\ recv_coords_list' = coords
               ELSE /\ sock_in' = sock_in
                    /\ data_to_route' = routes
                    /\ recv_coords_list' = awaited
      /\ UNCHANGED <<topo, ctl, pc, step, out_data, in_data, send_ids, pos, recv_ids,
                     handed, sent, seen>>

----------------------------------------------------------------------------

\* The processes right after BaseManager.start(): the topology is one that
\* connect calls built, the one broker has bound its sockets, every
\* registered module is at the top of its loop with its data socket
\* connected, and the broker awaits every edge of the routing table. The order of in_ids and out_ids is whatever dict.keys()
\* returns.
Started(t, p) ==
    /\ routing_table = t.rt
    /\ mod_dict = t.mods
    /\ net = t.net
    /\ in_ids \in {f \in [Modules -> UNION {Orders(Ins(t, m)) : m \in Modules}] :
                      \A m \in Modules : f[m] \in Orders(Ins(t, m))}
    /\ out_ids \in {f \in [Modules -> UNION {Orders(Outs(t, m)) : m \in Modules}] :
                       \A m \in Modules : f[m] \in Orders(Outs(t, m))}
    /\ parent = ModuleObjects(t)
    /\ conn_dict = t.conns
    /\ putter = p
    /\ pc = [m \in Modules |-> "run"]
    /\ step = [m \in Modules |-> 0]
    /\ out_data = [m \in Modules |-> <<>>]
    /\ in_data = [m \in Modules |-> <<>>]
    /\ send_ids = [m \in Modules |-> <<>>]
    /\ pos = [m \in Modules |-> 1]
    /\ recv_ids = [m \in Modules |-> <<>>]
    /\ sock_out = [m \in Modules |-> <<>>]
    /\ sock_in = [m \in Modules |-> <<>>]
    /\ data_to_route = <<>>
    /\ recv_coords_list = t.rt
    /\ brok_table = t.rt
    /\ started_rt = t.rt
    /\ brok_dict = {"B1"}
    /\ brok_pc = [b \in Brokers |-> IF b = "B1" THEN "loop" ELSE "new"]
    /\ man_pc = "up"
    /\ remaining = <<>>
    /\ ctrl_in = [i \in Modules \cup Brokers |-> <<>>]
    /\ acks = <<>>
    /\ ret = <<"start", "ok">>
    /\ conn = NoConn
    /\ handed = [m \in Modules |-> <<>>]
    /\ sent = {}
    /\ seen = [m \in Modules |-> {}]
    /\ joined = {}
    /\ quits = {}

Init ==
    \/ \E t \in {OneWay, Back, Pair, Chain, FanOut}, p \in {"MyModule", "any"} :
          Started(t, p)
    \/ Started(Ring, "MyModule")

Next ==
    \/ \E m \in Modules : RunStep(m)
    \/ \E m \in Modules : SyncSend(m)
    \/ \E m \in Modules : SyncRecv(m)
    \/ DataHandler

Spec == Init /\ [][Next]_vars

----------------------------------------------------------------------------
\* The manager before start(): add_brok, add_mod and connect build the
\* emulation.

\* the modules the build phase works on
Pairable == {"M1", "M2"}

\* The state with every object but the connectivity object constructed and
\* nothing started: manager t, brokers broks registered, every process new.
Built(t, p, broks) ==
    /\ routing_table = t.rt
    /\ mod_dict = t.mods
    /\ net = t.net
    /\ in_ids \in {f \in [Modules -> UNION {Orders(Ins(t, m)) : m \in Modules}] :
                      \A m \in Modules : f[m] \in Orders(Ins(t, m))}
    /\ out_ids \in {f \in [Modules -> UNION {Orders(Outs(t, m)) : m \in Modules}] :
                       \A m \in Modules : f[m] \in Orders(Outs(t, m))}
    /\ parent = ModuleObjects(t)
    /\ conn_dict = t.conns
    /\ putter = p
    /\ pc = [m \in Modules |-> "new"]
    /\ step = [m \in Modules |-> 0]
    /\ out_data = [m \in Modules |-> <<>>]
    /\ in_data = [m \in Modules |-> <<>>]
    /\ send_ids = [m \in Modules |-> <<>>]
    /\ pos = [m \in Modules |-> 1]
    /\ recv_ids = [m \in Modules |-> <<>>]
    /\ sock_out = [m \in Modules |-> <<>>]
    /\ sock_in = [m \in Modules |-> <<>>]
    /\ data_to_route = <<>>
    /\ recv_coords_list = IF broks = {} THEN {} ELSE t.rt
    /\ brok_table = IF broks = {} THEN {} ELSE t.rt
    /\ started_rt = {}
    /\ brok_dict = broks
    /\ brok_pc = [b \in Brokers |-> "new"]
    /\ man_pc = "build"
    /\ remaining = <<>>
    /\ ctrl_in = [i \in Modules \cup Brokers |-> <<>>]
    /\ acks = <<>>
    /\ ret = <<"__init__", "ok">>
    /\ handed = [m \in Modules |-> <<>>]
    /\ sent = {}
    /\ seen = [m \in Modules |-> {}]
    /\ joined = {}
    /\ quits = {}

\* the manager and its modules as connect finds them
Man ==
    [rt |-> routing_table, mods |-> mod_dict, conns |-> conn_dict,
     net |-> [m \in Modules |-> parent[m].net],
     conn_dict |-> [m \in Modules |-> parent[m].conn_dict]]

\* the same manager with core.py's modules
CoreMan ==
    [rt |-> routing_table, mods |-> mod_dict, conns |-> conn_dict,
     net |-> [m \in Modules |-> parent[m].net],
     in_ids |-> [m \in Modules |-> DOMAIN parent[m].conn_dict["in"]],
     out_ids |-> [m \in Modules |-> DOMAIN parent[m].conn_dict["out"]]]

\* dict.keys(): the keys as a list, in the order the dict yields them
keys(S) == CHOOSE s \in Orders(S) : TRUE

\* what no manager call before start() touches
running == <<putter, pc, step, out_data, in_data, send_ids, pos, recv_ids,
             sock_out, sock_in, data_to_route, brok_pc, man_pc, remaining,
             ctrl_in, acks, conn, started_rt, handed, sent, seen, joined, quits>>

\* Process.start() has forked child i: the child works on copies of the
\* objects, made when it was forked
Forked(i) == IF i \in Brokers THEN brok_pc[i] # "new" ELSE pc[i] # "new"

\* the manager is between two calls of its methods
Idle == man_pc \in {"build", "up", "done"}

\* the test at the head of add_brok, with a second broker let through
BrokFullOffByOne(n) == n > 1

\* the test at the head of add_brok
BrokFull(n) == n = 1

\* BaseManager.N_brok
N_brok == Cardinality(brok_dict)

\* BaseManager.add_brok; the new Broker holds the manager's routing table
\* and copies its coords
AddBrok(b) ==
    /\ Idle
    /\ UNCHANGED <<routing_table, mod_dict, conn_dict, parent, net, in_ids, out_ids>>
    /\ UNCHANGED running
    /\ IF BrokFull(N_brok)
       THEN /\ ret' = <<"add_brok", "RuntimeError">>
            /\ UNCHANGED <<brok_dict, brok_table, recv_coords_list>>
       ELSE /\ brok_dict' = brok_dict \cup {b}
            /\ brok_table' = routing_table
            /\ recv_coords_list' = coords'
            /\ ret' = <<"add_brok", "ok">>

\* BaseManager.add_mod
AddMod(m) ==
    /\ Idle
    /\ mod_dict' = mod_dict \cup {m}
    /\ ret' = <<"add_mod", "ok">>
    /\ UNCHANGED <<routing_table, conn_dict, parent, net, in_ids, out_ids, brok_dict,
                   brok_table, recv_coords_list>>
    /\ UNCHANGED running

\* BaseManager.connect. The manager changes the objects in its own process:
\* a module or a broker that is already forked works on its copy.
Connect(m_src, m_dest, c, dir) ==
    /\ Idle
    /\ IF ~(IsModule(m_src) /\ IsModule(m_dest) /\ IsConn(c))
       THEN /\ ret' = <<"connect", "ValueError">>
            /\ UNCHANGED <<routing_table, mod_dict, conn_dict, parent, net, in_ids,
                           out_ids, brok_table>>
       ELSE \E t \in {IF dir \in Dirs THEN connect(Man, m_src, m_dest, c, dir)
                        ELSE Register(Man, m_src, m_dest, c)} :
               /\ routing_table' = t.rt
               /\ mod_dict' = t.mods
               /\ conn_dict' = t.conns
               /\ parent' = ModuleObjects(t)
               /\ net' = [m \in Modules |-> IF Forked(m) THEN net[m] ELSE t.net[m]]
               /\ in_ids' = [m \in Modules |->
                                IF Forked(m) THEN in_ids[m] ELSE keys(Ins(t, m))]
               /\ out_ids' = [m \in Modules |->
                                 IF Forked(m) THEN out_ids[m] ELSE keys(Outs(t, m))]
               /\ brok_table' = IF \E b \in brok_dict : ~Forked(b)
                                 THEN t.rt ELSE brok_table
               /\ ret' = <<"connect", IF dir \in Dirs THEN "ok" ELSE "ValueError">>
    /\ UNCHANGED <<brok_dict, recv_coords_list>>
    /\ UNCHANGED running

\* the modules are constructed with any net the setter accepts
ConnInit ==
    /\ \E n \in [Pairable -> Nets] :
          Built([NewManager EXCEPT
                    !.net = [m \in Modules |-> IF m \in Pairable THEN n[m] ELSE "none"]],
                "MyModule", {})
    /\ conn = NoConn

ConnNext ==
    \/ \E b \in Brokers : AddBrok(b)
    \/ \E m \in Pairable : AddMod(m)
    \/ \E m_src \in Pairable, m_dest \in Pairable, dir \in Dirs \cup {"x"} :
          Connect(m_src, m_dest, TheConn, dir)
    \/ \E a \in {<<NotAModule, "M1", TheConn>>, <<"M1", NotAModule, TheConn>>,
                  <<"M1", "M2", NotAConn>>}, dir \in {"+", "x"} :
          Connect(a[1], a[2], a[3], dir)

ConnSpec == ConnInit /\ [][ConnNext]_vars

----------------------------------------------------------------------------
\* BaseManager.start and stop, and the children's side of them. start()
\* returns as soon as the processes are forked: each child then initializes
\* its network connection on its own.

\* OneWay and a third module registered with add_mod, its net the default
Lone == [OneWay EXCEPT !.mods = @ \cup {"M3"}]

\* the part of start() and stop() that leaves the data plane alone
data == <<routing_table, mod_dict, net, in_ids, out_ids, putter, step, out_data,
          in_data, send_ids, pos, recv_ids, sock_out, data_to_route, conn, parent,
          conn_dict, brok_table, handed, sent, seen>>

\* the control socket opened whatever the net
CtrlUpAnyNet(i) ==
    IF i \in Brokers THEN brok_pc[i] = "loop"
    ELSE pc[i] \notin {"new", "init", "exit", "done"}

\* whether child i has a control socket connected to the manager's ROUTER
CtrlUp(i) ==
    IF i \in Brokers THEN brok_pc[i] = "loop"
    ELSE net[i] # "none" /\ pc[i] \notin {"new", "init", "exit", "done"}

\* sock_ctrl.send_multipart([i, msg]): a ROUTER drops a frame for an identity
\* that is not connected
SendCtrl(q, i, msg) == IF CtrlUp(i) THEN [q EXCEPT ![i] = Append(@, msg)] ELSE q

\* start(): the loop over the brokers
StartBroks ==
    /\ man_pc = "build"
    /\ brok_pc' = [b \in Brokers |-> IF b \in brok_dict THEN "start" ELSE brok_pc[b]]
    /\ man_pc' = IF mod_dict = {} THEN "up" ELSE "start"
    /\ ret' = <<"start", "ok">>
    /\ started_rt' = routing_table
    /\ UNCHANGED <<data, pc, sock_in, recv_coords_list, brok_dict, remaining,
                   ctrl_in, acks, joined, quits>>

\* start(): one iteration of the loop over the modules
StartMod(m) ==
    /\ man_pc = "start"
    /\ m \in mod_dict
    /\ pc[m] = "new"
    /\ pc' = [pc EXCEPT ![m] = "init"]
    /\ man_pc' = IF \A o \in mod_dict \ {m} : pc[o] # "new" THEN "up" ELSE "start"
    /\ UNCHANGED <<data, sock_in, recv_coords_list, brok_dict, started_rt, brok_pc, remaining,
                   ctrl_in, acks, ret, joined, quits>>

\* Broker.run up to the start of the event loop: the sockets are bound
BrokRun(b) ==
    /\ brok_pc[b] = "start"
    /\ brok_pc' = [brok_pc EXCEPT ![b] = "loop"]
    /\ recv_coords_list' = coords
    /\ UNCHANGED <<data, pc, sock_in, brok_dict, started_rt, man_pc, remaining, ctrl_in, acks,
                   ret, joined, quits>>

\* BaseModule._init_net: the sockets are connected, unless net is 'none';
\* what the broker routed to this identity before was dropped
ModInitNet(m) ==
    /\ pc[m] = "init"
    /\ pc' = [pc EXCEPT ![m] = "run"]
    /\ sock_in' = [sock_in EXCEPT ![m] = <<>>]
    /\ UNCHANGED <<data, recv_coords_list, brok_dict, started_rt, brok_pc, man_pc, remaining,
                   ctrl_in, acks, ret, joined, quits>>

\* the quit signal raised ahead of the ack: the process ends with no ack sent
AckedUnlessQuit(q, m, msg) == IF msg = "quit" THEN q ELSE Append(q, m)

\* sock_ctrl.send('ack'): on quit it precedes os.kill, so the ack of a quit
\* is on its way when the signal ends run()
Acked(q, m, msg) == Append(q, m)

\* BaseModule._ctrl_handler: ack, and on quit the signal that ends run()
ModCtrl(m) ==
    /\ m \in Modules
    /\ CtrlUp(m)
    /\ ctrl_in[m] # <<>>
    /\ acks' = Acked(acks, m, Head(ctrl_in[m]))
    /\ IF Head(ctrl_in[m]) = "quit"
       THEN /\ pc' = [pc EXCEPT ![m] = "done"]
            /\ ctrl_in' = [ctrl_in EXCEPT ![m] = <<>>]
       ELSE /\ ctrl_in' = [ctrl_in EXCEPT ![m] = Tail(@)]
            /\ UNCHANGED pc
    /\ UNCHANGED <<data, sock_in, recv_coords_list, brok_dict, started_rt, brok_pc, man_pc,
                   remaining, ret, joined, quits>>

\* Broker._ctrl_handler: on quit the streams stop, the event loop stops and
\* run() returns; the data frames flush() hands to _data_handler first are
\* DataHandler steps that come before this one
BrokCtrl(b) ==
    /\ b \in Brokers
    /\ CtrlUp(b)
    /\ ctrl_in[b] # <<>>
    /\ IF Head(ctrl_in[b]) = "quit"
       THEN /\ acks' = Append(acks, b)
            /\ brok_pc' = [brok_pc EXCEPT ![b] = "exit"]
            /\ ctrl_in' = [ctrl_in EXCEPT ![b] = <<>>]
       ELSE /\ ctrl_in' = [ctrl_in EXCEPT ![b] = Tail(@)]
            /\ UNCHANGED <<acks, brok_pc>>
    /\ UNCHANGED <<data, pc, sock_in, recv_coords_list, brok_dict, started_rt, man_pc,
                   remaining, ret, joined, quits>>

\* stop() up to its while loop
StopBegin ==
    /\ man_pc = "up"
    /\ remaining' \in Orders(mod_dict)
    /\ man_pc' = "stop"
    /\ UNCHANGED <<data, pc, sock_in, recv_coords_list, brok_dict, started_rt, brok_pc, ctrl_in,
                   acks, ret, joined, quits>>

\* the while test with the last module left out
StopLoopShort(rem) == Len(rem) > 1

\* the test of stop()'s while loop
StopLoop(rem) == rem # <<>>

\* quit sent to the module at the end of the list
QuitTargetLast(rem) == rem[Len(rem)]

\* i = recv_ids[0]: the module the iteration sends quit to
QuitTarget(rem) == Head(rem)

\* the module at the head of the list taken off it, whoever sent the ack
AcknowledgedHead(i, j) == i

\* the module stop() looks up in its list when [j, data] has arrived while
\* it waits for module i
Acknowledged(i, j) == j

\* quit sent to every broker, each joined for a second
QuitBroks(q) ==
    [i \in DOMAIN q |-> IF i \in brok_dict THEN SendCtrl(q, i, "quit")[i] ELSE q[i]]

\* stop(): quit to the head of the list, or after the loop the brokers
StopSend ==
    /\ man_pc = "stop"
    /\ IF StopLoop(remaining)
       THEN /\ ctrl_in' = SendCtrl(ctrl_in, QuitTarget(remaining), "quit")
            /\ quits' = quits \cup {QuitTarget(remaining)}
            /\ man_pc' = "poll"
            /\ UNCHANGED ret
       ELSE /\ ctrl_in' = QuitBroks(ctrl_in)
            /\ man_pc' = "done"
            /\ ret' = <<"stop", "ok">>
            /\ UNCHANGED quits
    /\ UNCHANGED <<data, pc, sock_in, recv_coords_list, brok_dict, started_rt, brok_pc,
                   remaining, acks, joined>>

\* stop(): the poll for an ack; without one the loop comes round again
StopPoll ==
    /\ man_pc = "poll"
    /\ IF acks # <<>>
       THEN /\ acks' = Tail(acks)
            /\ LET j == Acknowledged(QuitTarget(remaining), Head(acks))
               IN IF j \in Range(remaining)
                  THEN /\ remaining' = Remove(remaining, j)
                       /\ joined' = joined \cup {j}
                  ELSE UNCHANGED <<remaining, joined>>
       ELSE /\ Len(ctrl_in[QuitTarget(remaining)]) < MaxQuits
            /\ UNCHANGED <<acks, remaining, joined>>
    /\ man_pc' = "stop"
    /\ UNCHANGED <<data, pc, sock_in, recv_coords_list, brok_dict, started_rt, brok_pc, ctrl_in,
                   ret, quits>>

LifeInit ==
    /\ \E t \in {OneWay, Pair, Lone} : Built(t, "MyModule", {"B1"})
    /\ conn = NoConn

LifeNext ==
    \/ StartBroks
    \/ \E m \in Modules : StartMod(m)
    \/ \E b \in Brokers : BrokRun(b)
    \/ \E m \in Modules : ModInitNet(m)
    \/ \E m \in Modules : RunStep(m)
    \/ \E m \in Modules : SyncSend(m)
    \/ \E m \in Modules : SyncRecv(m)
    \/ DataHandler
    \/ \E m \in Modules : ModCtrl(m)
    \/ \E b \in Brokers : BrokCtrl(b)
    \/ StopBegin
    \/ StopSend
    \/ StopPoll

LifeSpec == LifeInit /\ [][LifeNext]_vars

\* every process and the manager keep running while they have a step to take
LifeFair ==
    /\ LifeSpec
    /\ WF_vars(StartBroks) /\ WF_vars(StopBegin) /\ WF_vars(StopSend) /\ WF_vars(StopPoll)
    /\ WF_vars(DataHandler)
    /\ \A b \in Brokers : WF_vars(BrokRun(b)) /\ WF_vars(BrokCtrl(b))
    /\ \A m \in Modules :
          /\ WF_vars(StartMod(m)) /\ WF_vars(ModInitNet(m)) /\ WF_vars(ModCtrl(m))
          /\ WF_vars(RunStep(m)) /\ WF_vars(SyncSend(m)) /\ WF_vars(SyncRecv(m))

----------------------------------------------------------------------------
\* stop() on a running emulation, and stop() called again on the emulation
\* it has stopped: the modules are gone and the broker's ack of the first
\* call is on the manager's socket.

\* stop() called after stop() has returned
StopAgain ==
    /\ man_pc = "done"
    /\ remaining' \in Orders(mod_dict)
    /\ quits' = {}
    /\ man_pc' = "stop"
    /\ UNCHANGED <<data, pc, sock_in, recv_coords_list, brok_dict, started_rt, brok_pc, ctrl_in,
                   acks, ret, joined>>

StopInit == \E t \in {OneWay, Pair} : Started(t, "MyModule")

StopNext ==
    \/ \E m \in Modules : RunStep(m)
    \/ \E m \in Modules : SyncSend(m)
    \/ \E m \in Modules : SyncRecv(m)
    \/ DataHandler
    \/ \E m \in Modules : ModCtrl(m)
    \/ \E b \in Brokers : BrokCtrl(b)
    \/ StopBegin
    \/ StopSend
    \/ StopPoll
    \/ StopAgain

StopSpec == StopInit /\ [][StopNext]_vars

----------------------------------------------------------------------------
\* BaseModule.add_conn called on the modules of a manager, next to connect.

\* m.add_conn(c, conn_type, id), called in the manager's process; ret keeps
\* the arguments of the call
ModAddConn(m, c, conn_type, id) ==
    /\ Idle
    /\ LET r == add_conn(parent[m].conn_dict, c, conn_type, id)
       IN /\ parent' = [parent EXCEPT ![m].conn_dict = r.conn_dict]
          /\ in_ids' = [in_ids EXCEPT ![m] =
                           IF Forked(m) THEN @ ELSE keys(DOMAIN r.conn_dict["in"])]
          /\ out_ids' = [out_ids EXCEPT ![m] =
                            IF Forked(m) THEN @ ELSE keys(DOMAIN r.conn_dict["out"])]
          /\ ret' = <<"m.add_conn", IF r.exc = "" THEN "ok" ELSE r.exc,
                      <<m, c, conn_type, id>>>>
    /\ UNCHANGED <<routing_table, mod_dict, conn_dict, net, brok_dict, brok_table,
                   recv_coords_list>>
    /\ UNCHANGED running

ModInit ==
    /\ Built(NewManager, "MyModule", {})
    /\ conn = NoConn

ModNext ==
    \/ \E c \in {TheConn, NotAConn}, conn_type \in {"in", "out", "x"}, id \in Pairable :
           ModAddConn("M1", c, conn_type, id)
    \/ \E dir \in Dirs : Connect("M1", "M2", TheConn, dir)

ModSpec == ModInit /\ [][ModNext]_vars

----------------------------------------------------------------------------
\* The control plane of a running emulation: send_ctrl_msg, and control
\* frames of any kind sent on the manager's ROUTER socket.

\* Control frames on their way to the children and acks on their way back.
MaxCtrl == 2

\* the frames on the control sockets
RECURSIVE InFlight(_)
InFlight(S) ==
    IF S = {} THEN Len(acks)
    ELSE LET i == CHOOSE x \in S : TRUE IN Len(ctrl_in[i]) + InFlight(S \ {i})

\* a Python list and the tuple of a *msg parameter
List(items) == [type |-> "list", items |-> items]
Tuple(items) == [type |-> "tuple", items |-> items]

\* x + y on a list x: a list can only be concatenated with a list
ListAdd(x, y) ==
    IF y.type = "list" THEN List(x.items \o y.items)
    ELSE [type |-> "TypeError", items |-> <<>>]

\* BaseManager.send_ctrl_msg(i, *msg): the call up to the poll loop, and the
\* poll loop, which returns with the first frame on the manager's socket
SendCtrlMsg(i, msg) ==
    /\ IF man_pc = "wait"
       THEN /\ acks # <<>>
            /\ acks' = Tail(acks)
            /\ man_pc' = "up"
            /\ ret' = <<"send_ctrl_msg", "ok", ret[3]>>
            /\ UNCHANGED ctrl_in
       ELSE /\ man_pc = "up"
            /\ LET frame == ListAdd(List(<<i>>), Tuple(msg))
               IN IF frame.type = "TypeError"
                  THEN /\ ret' = <<"send_ctrl_msg", "TypeError", <<i, msg>>>>
                       /\ UNCHANGED <<ctrl_in, man_pc>>
                  ELSE /\ ctrl_in' = SendCtrl(ctrl_in, frame.items[1], frame.items[2])
                       /\ man_pc' = "wait"
                       /\ ret' = <<"send_ctrl_msg", "", <<i, msg>>>>
            /\ UNCHANGED acks
    /\ UNCHANGED <<data, started_rt, pc, sock_in, recv_coords_list, brok_dict, brok_pc,
                   remaining, joined, quits>>

\* sock_ctrl.send_multipart([i, msg]) on the manager's socket, from outside
\* the manager's methods
CtrlArrive(i, msg) ==
    /\ man_pc = "up"
    /\ CtrlUp(i)
    /\ InFlight(Modules \cup Brokers) < MaxCtrl
    /\ ctrl_in' = SendCtrl(ctrl_in, i, msg)
    /\ UNCHANGED <<data, started_rt, pc, sock_in, recv_coords_list, brok_dict, brok_pc,
                   man_pc, remaining, acks, ret, joined, quits>>

CtrlInit == Started(OneWay, "MyModule")

CtrlNext ==
    \/ \E m \in Modules : RunStep(m)
    \/ \E m \in Modules : SyncSend(m)
    \/ \E m \in Modules : SyncRecv(m)
    \/ DataHandler
    \/ \E m \in Modules : ModCtrl(m)
    \/ \E b \in Brokers : BrokCtrl(b)
    \/ \E i \in Modules \cup Brokers, msg \in {"quit", "conn"} : CtrlArrive(i, msg)
    \/ \E i \in {"M1", "B1"} : SendCtrlMsg(i, <<"quit">>)

CtrlSpec == CtrlInit /\ [][CtrlNext]_vars

----------------------------------------------------------------------------
\* connect called at any time, before start() and after it: the manager is
\* constructed with a broker, and connect is called on M1 and M2.

LateInit ==
    /\ Built(NewManager, "MyModule", {"B1"})
    /\ conn = NoConn

LateNext ==
    \/ \E dir \in Dirs : Connect("M1", "M2", TheConn, dir)
    \/ StartBroks
    \/ \E m \in Modules : StartMod(m)
    \/ \E b \in Brokers : BrokRun(b)
    \/ \E m \in Modules : ModInitNet(m)
    \/ \E m \in Modules : RunStep(m)
    \/ \E m \in Modules : SyncSend(m)
    \/ \E m \in Modules : SyncRecv(m)
    \/ DataHandler

LateSpec == LateInit /\ [][LateNext]_vars

----------------------------------------------------------------------------
\* A connectivity object on its own: constructed with any numbers of ports,
\* then written to and transposed.

\* c[source, dest, 0, dir, param] = 1; an index outside the matrix raises
ConnSet(source, dest, dir, param) ==
    /\ LET key == make_key(0, dir, param)
           shp == IF key \in DOMAIN conn.data THEN conn.data[key].shape ELSE shape(conn)
       IN source < shp[1] /\ dest < shp[2]
    /\ conn' = set(conn, source, dest, 0, dir, param)
    /\ UNCHANGED <<topo, pc, step, out_data, in_data, send_ids, pos, recv_ids, sock_out,
                   sock_in, data_to_route, recv_coords_list, brok_dict, brok_pc,
                   man_pc, remaining, ctrl_in, acks, ret, parent, conn_dict, brok_table,
                   started_rt, handed, sent, seen, joined, quits>>

\* c = c.T
ConnTranspose ==
    /\ conn' = transpose(conn)
    /\ UNCHANGED <<topo, pc, step, out_data, in_data, send_ids, pos, recv_ids, sock_out,
                   sock_in, data_to_route, recv_coords_list, brok_dict, brok_pc,
                   man_pc, remaining, ctrl_in, acks, ret, parent, conn_dict, brok_table,
                   started_rt, handed, sent, seen, joined, quits>>

ObjInit ==
    /\ Built(NewManager, "MyModule", {})
    /\ \E N_src \in 1..MaxPorts, N_dest \in 1..MaxPorts :
          conn = BaseConnectivity(N_src, N_dest)

ObjNext ==
    \/ \E source \in 0..MaxPorts - 1, dest \in 0..MaxPorts - 1, dir \in {"+", "-"},
           param \in {"conn", "weight"} : ConnSet(source, dest, dir, param)
    \/ ConnTranspose

ObjSpec == ObjInit /\ [][ObjNext]_vars

----------------------------------------------------------------------------
\* The broker against arbitrary peers: the ROUTER socket takes whatever the
\* processes connected to the data port send it, so here the frames that
\* arrive are any frames, not those _sync of this repository sends.

\* the peer with identity m sends the next frame the handler is called with
Post(m) ==
    /\ m \in mod_dict
    /\ sock_out[m] = <<>>
    /\ \A d \in Modules : Len(sock_in[d]) < MaxStep
    /\ \E d \in {"M1", "M3"}, v \in {NONE, 0}, n \in {1, 2} :
          sock_out' = [sock_out EXCEPT ![m] =
                          Append(@, [dst |-> d, data |-> v, step |-> 0, parts |-> n])]
    /\ UNCHANGED <<topo, ctl, pc, step, out_data, in_data, send_ids, pos, recv_ids,
                   sock_in, data_to_route, recv_coords_list, handed, sent, seen>>

BrokInit == Started(FanIn, "MyModule")

BrokNext ==
    \/ \E m \in Modules : Post(m)
    \/ DataHandler

BrokSpec == BrokInit /\ [][BrokNext]_vars

----------------------------------------------------------------------------
\* Two sources and one destination: the order in which the frames of M1 and
\* M2 reach the broker differs from round to round. And a pair whose modules
\* emit anything, so that NONE frames travel.

OrderInit == Started(FanIn, "MyModule") \/ Started(Pair, "any")

OrderSpec == OrderInit /\ [][Next]_vars

----------------------------------------------------------------------------
\* Two modules constructed with any net the setter accepts and joined by one
\* connect call before start().

\* the manager whose modules M1 and M2 were constructed with the nets n
Constructed(n) ==
    [NewManager EXCEPT
        !.net = [m \in Modules |-> IF m \in Pairable THEN n[m] ELSE "none"]]

NetInit ==
    \E n \in [Pairable -> Nets], dir \in Dirs :
        Started(connect(Constructed(n), "M1", "M2", TheConn, dir), "MyModule")

NetSpec == NetInit /\ [][Next]_vars

----------------------------------------------------------------------------
\* _sync against an arbitrary peer: the module's DEALER socket takes whatever
\* the process bound to the data port sends it, so here the frames that
\* arrive are any frames, not those the Broker of this repository routes.

\* the frame the blocked recv() of the receive loop returns next arrives
ArriveOf(m, S, V) ==
    /\ m \in mod_dict
    /\ pc[m] = "recv"
    /\ sock_in[m] = <<>>
    /\ \E s \in S, v \in V :
          sock_in' = [sock_in EXCEPT ![m] =
                         Append(@, [src |-> s, data |-> v, step |-> 0])]
    /\ UNCHANGED <<topo, ctl, pc, step, out_data, in_data, send_ids, pos, recv_ids,
                   sock_out, data_to_route, recv_coords_list, handed, sent, seen>>

\* a frame of M1, of M2 or of M4
Arrive(m) == ArriveOf(m, {"M1", "M2", "M4"}, {NONE, 0})

RecvInit == Started(FanIn, "MyModule")

RecvNext ==
    \/ \E m \in Modules : RunStep(m)
    \/ \E m \in Modules : SyncSend(m)
    \/ \E m \in Modules : SyncRecv(m)
    \/ \E m \in Modules : Arrive(m)

RecvSpec == RecvInit /\ [][RecvNext]_vars

----------------------------------------------------------------------------
\* The ways out of the step loop: modules whose _put_out_data emits anything
\* and whose socket takes frames of any peer, under a manager that calls
\* stop().

LoopInit == Started(OneWay, "any")

LoopNext ==
    \/ StopNext
    \/ \E m \in Modules : ArriveOf(m, {"M4"}, {0})

LoopSpec == LoopInit /\ [][LoopNext]_vars

----------------------------------------------------------------------------
\* core.py: BaseModule.run and BaseModule._sync, which keep no send list,
\* send nothing for a destination the outbound buffer does not name, and
\* store every payload they receive.

\* where core.py's _sync stands when it is entered with outbound buffer b
CoreAtEntry(m, b) ==
    IF NoSync(m) THEN "run"
    ELSE IF Sends(m) /\ b # <<>> THEN "send"
    ELSE AfterOut(m)

\* the append left out of core.py's receive loop
CoreStoredNever(v) == FALSE

\* whether core.py's receive loop stores a received payload: always
CoreStored(v) == TRUE

\* run(): run_step, the outbound buffer, and the entry of _sync
CoreRunStep(m) ==
    /\ m \in mod_dict
    /\ pc[m] = "run"
    /\ step[m] < MaxStep
    /\ \E b \in PutOutData(m) :
          /\ out_data' = [out_data EXCEPT ![m] = b]
          /\ pos' = [pos EXCEPT ![m] = 1]
          /\ handed' = [handed EXCEPT ![m] = <<>>]
          /\ Move(m, CoreAtEntry(m, b))
    /\ UNCHANGED <<topo, ctl, sock_out, sock_in, data_to_route, recv_coords_list,
                   sent, seen>>

\* one iteration of the send loop of core.py's _sync
CoreSyncSend(m) ==
    /\ m \in mod_dict
    /\ pc[m] = "send"
    /\ LET e == out_data[m][pos[m]]
       IN /\ Hand(m, DataFrame(m, e.dst, e.data))
          /\ IF pos[m] < Len(out_data[m])
             THEN /\ pos' = [pos EXCEPT ![m] = @ + 1]
                  /\ Move(m, "send")
             ELSE /\ pos' = [pos EXCEPT ![m] = 1]
                  /\ Move(m, AfterOut(m))
    /\ UNCHANGED <<topo, ctl, out_data, sock_in, data_to_route, recv_coords_list,
                   seen>>

\* one iteration of the receive loop of core.py's _sync
CoreSyncRecv(m) ==
    /\ m \in mod_dict
    /\ pc[m] = "recv"
    /\ sock_in[m] # <<>>
    /\ LET f == Head(sock_in[m])
           left == Remove(recv_ids[m], f.src)
       IN /\ sock_in' = [sock_in EXCEPT ![m] = Tail(@)]
          /\ seen' = [seen EXCEPT ![m] = @ \cup {<<f.src, f.step>>}]
          /\ IF Expected(recv_ids[m], f.src)
             THEN /\ recv_ids' = [recv_ids EXCEPT ![m] = left]
                  /\ in_data' = [in_data EXCEPT ![m] =
                        IF CoreStored(f.data) THEN Append(@, [src |-> f.src, data |-> f.data])
                        ELSE @]
                  /\ pc' = [pc EXCEPT ![m] = IF left = <<>> THEN "run" ELSE "recv"]
                  /\ step' = [step EXCEPT ![m] = IF left = <<>> THEN @ + 1 ELSE @]
             ELSE Raise(m)
    /\ UNCHANGED <<topo, ctl, out_data, pos, sock_out, data_to_route,
                   recv_coords_list, handed, sent>>

\* core.py's modules under the broker; send_ids is a variable of base.py's
\* _sync only
CoreNext ==
    \/ \E m \in Modules : CoreRunStep(m) /\ UNCHANGED send_ids
    \/ \E m \in Modules : CoreSyncSend(m) /\ UNCHANGED send_ids
    \/ \E m \in Modules : CoreSyncRecv(m) /\ UNCHANGED send_ids
    \/ DataHandler

CoreSpec == OrderInit /\ [][CoreNext]_vars

----------------------------------------------------------------------------
\* Properties

\* how many entries of list q satisfy P
Count(q, P(_)) == Cardinality({i \in 1..Len(q) : P(q[i])})

\* module m has completed at least one _sync and stands at the top of its loop
Returned(m) == m \in mod_dict /\ pc[m] = "run" /\ step[m] > 0

\* the step the last completed _sync of m belonged to
LastStep(m) == step[m] - 1

\* C1: a destination d never takes a step-(k+1) frame of any peer before it
\* has taken every step-k frame that was sent to it.
C1_GlobalBarrier ==
    \A d \in Modules : \A t \in seen[d] :
        \A u \in sent :
            (u[2] = d /\ u[3] + 1 = t[2]) => <<u[1], u[3]>> \in seen[d]

\* C2: no module has completed step k+1 while some receiving peer has not
\* completed the receive phase of its step k.
C2_NoRunAhead ==
    \A m \in mod_dict : \A p \in mod_dict :
        (Receives(p) /\ in_ids[p] # <<>>) => step[m] <= step[p] + 1

\* some frame is put on a module's inbound socket in this step
Emits == \E d \in Modules : Len(sock_in'[d]) > Len(sock_in[d])

\* C3: the broker emits frames only in the handler invocation that takes the
\* last awaited edge, and then it emits the whole round: one frame per edge
\* of the routing table, the held ones and the arriving one.
C3_EmitOnlyWhenRoundComplete ==
    [][Emits =>
          /\ \E m \in Modules :
                /\ sock_out[m] # <<>>
                /\ recv_coords_list = {<<m, Head(sock_out[m]).dst>>}
                /\ sock_out'[m] = Tail(sock_out[m])
          /\ {<<r.src, r.dst>> : r \in Range(data_to_route)} \cup recv_coords_list = coords
          /\ Len(data_to_route) + 1 = Cardinality(coords)
          /\ \A d \in Modules :
                Len(sock_in'[d]) - Len(sock_in[d]) = Cardinality({e \in coords : e[2] = d})
    ]_vars

\* the broker holds frames of a round of several edges, in a run in which it
\* has delivered an earlier round
C3_Witness ==
    /\ data_to_route # <<>>
    /\ recv_coords_list # {}
    /\ \E d \in mod_dict : Receives(d) /\ step[d] > 0

\* the places a frame of s for d of step k can be while it is under way or
\* delivered
Copies(s, d, k) ==
    Count(sock_out[s], LAMBDA f : f.dst = d /\ f.step = k)
    + Count(data_to_route, LAMBDA r : r.src = s /\ r.dst = d /\ r.step = k)
    + Count(sock_in[d], LAMBDA f : f.src = s /\ f.step = k)
    + (IF <<s, k>> \in seen[d] THEN 1 ELSE 0)

\* C4: when every module names each destination once per step, every frame
\* a module has sent is under way to, or was received by, its destination
\* exactly once: the broker neither drops nor duplicates it.
C4_ExactlyOnce ==
    putter = "MyModule" => \A u \in sent : Copies(u[1], u[2], u[3]) = 1

\* the module that feeds m in the ring
RingPred(m) == CHOOSE s \in Modules : <<s, m>> \in Ring.rt

InRing == routing_table = Ring.rt /\ putter = "MyModule"

\* C5: in the ring of four with every module emitting its step index, the
\* inbound buffer a module holds after its _sync of step k is exactly the
\* payload k of its predecessor.
C5_RingInOrder ==
    InRing =>
        \A m \in Modules :
            Returned(m) =>
                in_data[m] = <<[src |-> RingPred(m), data |-> Emit(RingPred(m), LastStep(m))]>>

\* every module of the ring has completed every step
C5_Witness ==
    /\ InRing
    /\ \A m \in Modules : Returned(m) /\ step[m] = MaxStep
    /\ \A m \in Modules : in_data[m] = <<[src |-> RingPred(m), data |-> MaxStep - 1]>>

InOneWay == routing_table = OneWay.rt /\ putter = "MyModule"

SendDone(m) == pc[m] = "recv" \/ (pc[m] = "run" /\ step[m] > 0)

\* the payload the outbound buffer of m names for d, NONE if it names none
Named(m, d) ==
    IF \E i \in 1..Len(out_data[m]) : out_data[m][i].dst = d
    THEN out_data[m][CHOOSE i \in 1..Len(out_data[m]) : out_data[m][i].dst = d].data
    ELSE NONE

C8_InboundOfThisStep ==
    \A m \in mod_dict :
        (Receives(m) /\ Returned(m)) =>
            /\ \A i, j \in 1..Len(in_data[m]) :
                  in_data[m][i].src = in_data[m][j].src => i = j
            /\ \A i \in 1..Len(in_data[m]) :
                  in_data[m][i].src \in Range(in_ids[m]) /\ in_data[m][i].data # NONE
            /\ Range(in_data[m]) =
                  {[src |-> u[1], data |-> u[4]] :
                     u \in {v \in sent : v[2] = m /\ v[3] = LastStep(m) /\ v[4] # NONE}}

InPair == routing_table = Pair.rt

\* both modules of the pair have returned from the _sync of the same step
PairReturned ==
    /\ InPair
    /\ Returned("M1") /\ Returned("M2")
    /\ step["M1"] = step["M2"]

\* C9: M1 and M2 full and connected both ways; in a step in which M1 names
\* no destination and M2 emits x to M1, both return from _sync, M1 holds
\* [(M2, x)] and M2 holds nothing.
C9_NoneSuppressed ==
    (PairReturned /\ out_data["M1"] = <<>> /\ Len(out_data["M2"]) = 1) =>
        /\ net["M1"] = "full" /\ net["M2"] = "full"
        /\ in_data["M1"] = <<[src |-> "M2", data |-> out_data["M2"][1].data]>>
        /\ in_data["M2"] = <<>>

C9_Witness ==
    /\ PairReturned
    /\ out_data["M1"] = <<>>
    /\ out_data["M2"] = <<[dst |-> "M1", data |-> 1]>>
    /\ in_data["M1"] = <<[src |-> "M2", data |-> 1]>>
    /\ in_data["M2"] = <<>>

\* C10: a module never hands its socket two frames for one destination in
\* one step; a buffer that names a destination twice ends the run loop
\* before the second frame is sent.
C10_DuplicateNotSent ==
    \A m \in mod_dict : \A i, j \in 1..Len(handed[m]) :
        handed[m][i].dst = handed[m][j].dst => i = j

\* C12: when a module has been terminated for naming a destination twice,
\* every other module still completes further steps: none of them is left
\* short of its steps in a state from which nothing can happen any more.
C12_OthersKeepAdvancing ==
    \A m \in mod_dict : \A p \in mod_dict \ {m} :
        (pc[m] = "exit" /\ pc[p] # "exit" /\ step[p] < MaxStep) => ENABLED Next

\* the receive loop of m takes a frame whose source it does not await
TakesUnexpected(m) ==
    /\ pc[m] = "recv"
    /\ sock_in[m] # <<>>
    /\ sock_in'[m] = Tail(sock_in[m])
    /\ Head(sock_in[m]).src \notin Range(recv_ids[m])

\* C11: in the receive phase, a frame whose source is not among the sources
\* still awaited in this step (heard already, or not in in_ids) makes _sync
\* fail, and its payload is not appended to the inbound buffer.
C11_UnexpectedSourceFails ==
    [][\A m \in Modules :
          TakesUnexpected(m) => pc'[m] = "exit" /\ in_data'[m] = in_data[m]]_vars

\* M3 has stored the payload of one source and failed on the next frame,
\* with the other source still awaited
C11_Witness ==
    /\ routing_table = FanIn.rt
    /\ pc["M3"] = "exit"
    /\ Len(in_data["M3"]) = 1
    /\ Len(recv_ids["M3"]) = 1
    /\ recv_ids["M3"][1] # in_data["M3"][1].src

\* the changes of net the claim lists
Listed ==
    {<<"none", "in">>, <<"none", "out">>, <<"none", "full">>,
     <<"in", "full">>, <<"out", "full">>}

\* C13: whatever net the modules start with, no connect call demotes a
\* module: each change it makes to a net is none->in, none->out, none->full,
\* in->full or out->full, or it leaves the net as it was.
C13_ListedChangesOnly ==
    [][\A m \in Modules : net'[m] = net[m] \/ <<net[m], net'[m]>> \in Listed]_vars

\* C13 amended: the same with ctrl->full, the change '=' makes to a ctrl module.
C13_PromotionsOnly ==
    [][\A m \in Modules :
          \/ net'[m] = net[m]
          \/ <<net[m], net'[m]>> \in Listed \cup {<<"ctrl", "full">>}]_vars

\* both modules were promoted to full by connect calls that added three edges
C13_Witness ==
    /\ ret = <<"connect", "ok">>
    /\ Cardinality(routing_table) = 3
    /\ net["M1"] = "full" /\ net["M2"] = "full"

\* what connect leaves behind: routing table, nets, in_ids and out_ids
Same(t, u) == t.rt = u.rt /\ t.net = u.net /\ t.conn_dict = u.conn_dict

\* C14: for every pair of modules in every net mode, connect with '=' leaves
\* the routing table, the nets and the in_ids and out_ids as connect with
\* '+' followed by connect with '-' leaves them.
C14_BothIsPlusThenMinus ==
    \A m_src \in Pairable, m_dest \in Pairable :
        Same(connect(Man, m_src, m_dest, TheConn, "="),
             connect(connect(Man, m_src, m_dest, TheConn, "+"), m_src, m_dest, TheConn, "-"))

\* C15: for a connectivity object of any shape, transposing once gives the
\* shape (N_dest, N_src), the keys with their directions flipped and every
\* matrix transposed, and transposing twice gives the shape, the keys and
\* the entries of the original.
C15_TransposeInvolution ==
    LET t == transpose(conn)
        u == transpose(t)
    IN /\ shape(t) = <<conn.N_dest, conn.N_src>>
       /\ DOMAIN t.data = {FlipKey(k) : k \in DOMAIN conn.data}
       /\ \A k \in DOMAIN conn.data : t.data[FlipKey(k)] = MatT(conn.data[k])
       /\ shape(u) = shape(conn)
       /\ DOMAIN u.data = DOMAIN conn.data
       /\ \A k \in DOMAIN conn.data : u.data[k] = conn.data[k]

\* C16: a manager never holds more than one broker: add_brok on a manager
\* that has a broker raises and leaves brok_dict as it was.
C16_OneBroker ==
    [][/\ Cardinality(brok_dict') <= 1
       /\ brok_dict # {} =>
             /\ brok_dict' = brok_dict
             /\ ret'[1] = "add_brok" => ret'[2] = "RuntimeError"]_vars

\* a second add_brok has failed on a manager that holds B1
C16_Witness ==
    /\ ret = <<"add_brok", "RuntimeError">>
    /\ brok_dict = {"B1"}

\* C17: start() starts every registered broker before any module, and the
\* broker's data socket is bound before any module connects its data socket
\* or sends a data frame.
C17_BrokerBoundFirst ==
    \A b \in brok_dict : \A m \in mod_dict :
        /\ pc[m] # "new" => brok_pc[b] # "new"
        /\ (net[m] # "none" /\ pc[m] \notin {"new", "init"}) =>
              brok_pc[b] \notin {"new", "start"}

\* every child has initialized its network connection
AllUp ==
    /\ \A b \in brok_dict : brok_pc[b] = "loop"
    /\ \A m \in mod_dict : pc[m] \notin {"new", "init"}

\* C18: after start(), stop() eventually returns with every module and
\* every broker process exited, whatever the modules' nets and wherever
\* they are in their loops; stated for a stop() that begins when every
\* child is up, so that no quit is lost to a child that is still starting.
C18_StopTerminates ==
    (man_pc = "stop" /\ AllUp) ~>
        /\ man_pc = "done"
        /\ \A m \in mod_dict : pc[m] = "done"
        /\ \A b \in brok_dict : brok_pc[b] = "exit"

\* C19: a broker is sent quit only after every registered module has been
\* removed from stop()'s list, acknowledged and joined: when the loop over
\* the brokers has run, a quit is under way to a broker or a broker has
\* quit, no module is left in the list.
C19_BrokerQuitLast ==
    \A b \in brok_dict :
        (ctrl_in[b] # <<>> \/ brok_pc[b] = "exit" \/ man_pc = "done") =>
            /\ remaining = <<>>
            /\ joined = mod_dict
            /\ \A m \in mod_dict : pc[m] = "done"

\* the broker has quit after both modules were joined
C19_Witness ==
    /\ brok_pc["B1"] = "exit"
    /\ Cardinality(mod_dict) = 2
    /\ joined = mod_dict
    /\ man_pc = "done"

\* this step is the handler invocation that takes the last awaited edge
Completes ==
    \E m \in Modules :
        /\ sock_out[m] # <<>>
        /\ sock_out'[m] = Tail(sock_out[m])
        /\ recv_coords_list = {<<m, Head(sock_out[m]).dst>>}

\* C20: the broker empties data_to_route and restores recv_coords_list to
\* the edges of the routing table exactly when the last awaited edge
\* arrives: right after that step the list is the whole table and the
\* buffer is empty, and in no other step does the list grow or the buffer
\* lose an entry.
C20_ResetWhenRoundCompletes ==
    [][IF Completes
       THEN recv_coords_list' = routing_table /\ data_to_route' = <<>>
       ELSE /\ recv_coords_list' \subseteq recv_coords_list
            /\ Len(data_to_route') >= Len(data_to_route)
            /\ SubSeq(data_to_route', 1, Len(data_to_route)) = data_to_route
            /\ recv_coords_list' # recv_coords_list => recv_coords_list' # {}]_vars

\* a round of two edges has just been delivered and the next one is open
C20_Witness ==
    /\ Cardinality(routing_table) = 2
    /\ recv_coords_list = routing_table
    /\ data_to_route = <<>>
    /\ \E d \in mod_dict : Len(sock_in[d]) = 1 /\ step[d] = 1

\* C21: once start() has run, a connect call fails and the routing table is
\* still the one start() found.
C21_ConnectAfterStartFails ==
    (man_pc = "up" /\ ret[1] = "connect") =>
        (ret[2] # "ok" /\ routing_table = started_rt)

\* the edges of the round under way that the broker has taken
Taken == {<<data_to_route[k].src, data_to_route[k].dst>> : k \in DOMAIN data_to_route}

\* C22: a running broker awaits the edges the routing table had when start()
\* forked it, less those it has taken in the round under way: the edges
\* connect added between add_brok and start() are among them, the edges
\* connect adds after start() are not.
C22_AwaitsTableAtStart ==
    \A b \in brok_dict :
        brok_pc[b] = "loop" => recv_coords_list = started_rt \ Taken

\* the broker, constructed on an empty table, is in a round on the edge
\* added before start() while the manager's table holds a later edge
C22_Witness ==
    /\ brok_pc["B1"] = "loop"
    /\ started_rt # {}
    /\ routing_table # started_rt
    /\ recv_coords_list = started_rt
    /\ \E m \in mod_dict : step[m] > 0

\* C23: a connect call that raises ValueError, for an argument of the wrong
\* type or for a direction it does not recognize, leaves the manager's module
\* and connectivity maps, the routing table and the modules' nets and
\* connection maps as they were.
C23_FailedConnectChangesNothing ==
    [][ret' = <<"connect", "ValueError">> =>
          UNCHANGED <<mod_dict, conn_dict, routing_table, parent>>]_vars

\* C24: m.add_conn(c, conn_type, id) raises and leaves both maps of m as they
\* were when c is not a connectivity object or conn_type is neither 'in' nor
\* 'out'; otherwise it returns with conn_dict[conn_type][id] = c and every
\* other entry, the module's net, the other modules and the manager as they
\* were.
C24_AddConn ==
    [][ret'[1] = "m.add_conn" =>
          LET m == ret'[3][1]
              c == ret'[3][2]
              conn_type == ret'[3][3]
              id == ret'[3][4]
              old == parent[m].conn_dict
              new == parent'[m].conn_dict
          IN /\ IF ~IsConn(c) \/ conn_type \notin {"in", "out"}
                THEN ret'[2] # "ok" /\ new = old
                ELSE /\ ret'[2] = "ok"
                     /\ DOMAIN new[conn_type] = DOMAIN old[conn_type] \cup {id}
                     /\ new[conn_type][id] = c
                     /\ \A k \in DOMAIN old[conn_type] \ {id} :
                           new[conn_type][k] = old[conn_type][k]
                     /\ \A o \in {"in", "out"} \ {conn_type} : new[o] = old[o]
             /\ parent'[m].net = parent[m].net
             /\ \A o \in Modules \ {m} : parent'[o] = parent[o]
             /\ UNCHANGED <<routing_table, mod_dict, conn_dict, net>>]_vars

\* add_conn has stored an object in a map that connect had filled, and
\* a later call with a conn_type it does not know has raised
C24_Witness ==
    /\ ret[1] = "m.add_conn"
    /\ ret[2] = "KeyError"
    /\ routing_table # {}
    /\ \E m \in Pairable, id \in Pairable :
          /\ id \in DOMAIN parent[m].conn_dict["in"]
          /\ <<id, m>> \notin routing_table

\* the handler takes the frame at the head of m's socket in this step
Handles(m) == sock_out[m] # <<>> /\ sock_out'[m] = Tail(sock_out[m])

\* the handler discards frame f of m: it is malformed, or its edge is not awaited
Discards(m, f) == MsgLen(f) # 2 \/ <<m, f.dst>> \notin recv_coords_list

\* C25: a frame the broker discards, because it has not two parts or because
\* its edge is not in the table or was already received in this round,
\* leaves the pending list and the awaited list as they were, and the broker
\* sends nothing.
C25_DiscardChangesNothing ==
    [][\A m \in mod_dict :
          (Handles(m) /\ Discards(m, Head(sock_out[m]))) =>
              UNCHANGED <<data_to_route, recv_coords_list, sock_in>>]_vars

\* with a round under way, one peer's next frame is malformed and another's
\* is on an edge the broker has already received in this round
C25_Witness ==
    /\ data_to_route # <<>>
    /\ \E m \in mod_dict, o \in mod_dict :
          /\ sock_out[m] # <<>> /\ MsgLen(Head(sock_out[m])) # 2
          /\ sock_out[o] # <<>> /\ MsgLen(Head(sock_out[o])) = 2
          /\ <<o, Head(sock_out[o]).dst>> \in coords \ recv_coords_list

\* the entry the handler makes of frame f of m
Entry(m, f) == [src |-> m, dst |-> f.dst, data |-> f.data, step |-> f.step]

\* the handler takes frame f of m into the round
Accepts(m, f) == MsgLen(f) = 2 /\ <<m, f.dst>> \in recv_coords_list

\* C26: the broker appends every frame it accepts at the end of the pending
\* list; when the round completes, each destination's socket gets the
\* entries addressed to it in the order of the list, behind what it holds;
\* and the module appends the frames that are not NONE to its inbound buffer
\* in the order it receives them. So the buffer of a step has the frames of
\* the round in their order of arrival at the broker.
C26_ArrivalOrder ==
    [][/\ \A m \in mod_dict :
            (Handles(m) /\ Accepts(m, Head(sock_out[m]))) =>
                LET arrival == Append(data_to_route, Entry(m, Head(sock_out[m])))
                IN IF recv_coords_list = {<<m, Head(sock_out[m]).dst>>}
                   THEN \A d \in Modules :
                          LET to == ToDest(arrival, d)
                          IN /\ Len(sock_in'[d]) = Len(sock_in[d]) + Len(to)
                             /\ \A k \in 1..Len(sock_in[d]) : sock_in'[d][k] = sock_in[d][k]
                             /\ \A k \in 1..Len(to) :
                                   sock_in'[d][Len(sock_in[d]) + k] =
                                       [src |-> to[k].src, data |-> to[k].data,
                                        step |-> to[k].step]
                   ELSE data_to_route' = arrival
       /\ \A d \in mod_dict :
            (sock_in[d] # <<>> /\ sock_in'[d] = Tail(sock_in[d]) /\ pc'[d] # "exit") =>
                LET f == Head(sock_in[d])
                IN in_data'[d] = IF f.data = NONE THEN in_data[d]
                                 ELSE Append(in_data[d], [src |-> f.src, data |-> f.data])]_vars

\* M3 has finished a step with M2's frame ahead of M1's in its buffer
C26_Witness ==
    /\ routing_table = FanIn.rt
    /\ pc["M3"] = "run"
    /\ Len(in_data["M3"]) = 2
    /\ in_data["M3"][1].src = "M2"
    /\ in_data["M3"][2].src = "M1"

\* C27: with no quit sent and the topology built by connect before start(),
\* the rounds keep completing and every module keeps completing steps: as
\* long as some module has steps left to run, some process can take a step.
C27_EveryModuleAdvances ==
    (\E m \in mod_dict : step[m] < MaxStep) => ENABLED Next

\* the control handler of i takes a frame in this step
HandlesCtrl(i) == ctrl_in[i] # <<>> /\ Len(ctrl_in'[i]) < Len(ctrl_in[i])

\* C28: the module's control handler sends one ack for the frame it handles;
\* for a frame other than quit nothing of the module changes, so its loop
\* goes on from where it was; for quit the process ends, and it never ends
\* without the ack having been sent.
C28_ModuleAcksEveryFrame ==
    [][\A m \in Modules :
          /\ HandlesCtrl(m) =>
                /\ acks' = Append(acks, m)
                /\ IF Head(ctrl_in[m]) = "quit" THEN pc'[m] = "done"
                   ELSE UNCHANGED <<pc, step, net, in_ids, out_ids, in_data, out_data,
                                    send_ids, recv_ids, pos, sock_in, sock_out>>
          /\ (pc[m] # "done" /\ pc'[m] = "done") =>
                (HandlesCtrl(m) /\ acks' = Append(acks, m))]_vars

\* a module has acknowledged a frame other than quit and is past its first
\* step, and another has acknowledged quit and ended
C28_Witness ==
    \E m \in mod_dict, o \in mod_dict :
        /\ m # o
        /\ acks = <<m, o>>
        /\ pc[m] \notin {"done", "exit"} /\ step[m] > 1
        /\ pc[o] = "done"

\* C29: on quit the broker acks, stops its event loop and returns from run();
\* from then on it handles no control frame, takes no data frame and sends
\* none. A control frame other than quit gets no ack and changes nothing.
C29_BrokerQuit ==
    [][\A b \in brok_dict :
          /\ HandlesCtrl(b) =>
                IF Head(ctrl_in[b]) = "quit"
                THEN acks' = Append(acks, b) /\ brok_pc'[b] = "exit"
                ELSE UNCHANGED <<acks, brok_pc, data_to_route, recv_coords_list,
                                 sock_in, sock_out>>
          /\ brok_pc[b] = "exit" =>
                /\ brok_pc'[b] = "exit"
                /\ ctrl_in'[b] = ctrl_in[b]
                /\ UNCHANGED <<data_to_route, recv_coords_list>>
                /\ \A m \in Modules :
                      /\ Len(sock_in'[m]) <= Len(sock_in[m])
                      /\ Len(sock_out'[m]) >= Len(sock_out[m])]_vars

\* the broker has acknowledged quit and returned, and a data frame a module
\* sent after its first step waits on the broker's socket
C29_Witness ==
    /\ brok_pc["B1"] = "exit"
    /\ acks = <<"B1">>
    /\ \E m \in mod_dict : sock_out[m] # <<>> /\ step[m] > 0

\* C30: send_ctrl_msg(i, msg) to a connected peer i puts one frame, msg, on
\* i's control socket and then waits for a frame on the manager's socket.
C30_SendsOneFrame ==
    [][(man_pc = "up" /\ ret' # ret /\ ret'[1] = "send_ctrl_msg") =>
          LET i == ret'[3][1]
              msg == ret'[3][2]
          IN /\ man_pc' = "wait"
             /\ CtrlUp(i) => ctrl_in' = [ctrl_in EXCEPT ![i] = Append(@, msg[1])]]_vars

\* C31: stop() sends quit to no module but the head of its list, and to a
\* module for the first time only when every module that was ahead of it has
\* acknowledged and was joined, so no module behind the head has been sent
\* quit; an ack whose sender is not in the list leaves the list as it was.
C31_QuitToHeadOnly ==
    [][/\ \A m \in Modules :
            (m \in quits' \ quits \/ Len(ctrl_in'[m]) > Len(ctrl_in[m])) =>
                /\ remaining # <<>>
                /\ m = remaining[1]
                /\ m \notin quits => (mod_dict \ Range(remaining)) \subseteq joined
       /\ \A k \in 2..Len(remaining') : remaining'[k] \notin quits'
       /\ (man_pc = "poll" /\ acks # <<>> /\ acks[1] \notin Range(remaining)) =>
             UNCHANGED <<remaining, joined>>]_vars

\* both modules were sent quit in turn and joined, the broker has quit, and
\* a second stop() has taken the broker's ack off the socket with both
\* modules still in its list
C31_Witness ==
    /\ man_pc = "stop"
    /\ Len(remaining) = 2
    /\ joined = Range(remaining)
    /\ quits = {remaining[1]}
    /\ brok_pc["B1"] = "exit"
    /\ acks = <<>>

\* C32: a module whose net is 'none' has no socket: it has handed no data
\* frame to one and taken none from one, it is never inside the send or the
\* receive phase of _sync, no control frame reaches it, and it sends no ack,
\* so stop() never joins it.
C32_NoneOpensNoSocket ==
    \A m \in mod_dict :
        net[m] = "none" =>
            /\ sock_out[m] = <<>> /\ handed[m] = <<>>
            /\ \A u \in sent : u[1] # m
            /\ sock_in[m] = <<>> /\ seen[m] = {} /\ in_data[m] = <<>>
            /\ pc[m] \in {"new", "init", "run"}
            /\ ctrl_in[m] = <<>>
            /\ m \notin Range(acks) /\ m \notin joined

\* a module with net 'none' has run all its steps, and stop() has sent it
\* quit while the other modules exchanged frames
C32_Witness ==
    \E m \in mod_dict :
        /\ net[m] = "none"
        /\ step[m] = MaxStep
        /\ m \in quits
        /\ man_pc = "poll"
        /\ \E o \in mod_dict : seen[o] # {}

\* module m is inside the loop of run()
InLoop(m) == pc[m] \in {"run", "send", "fill", "recv"}

\* module m leaves the loop of run() in this step
Leaves(m) == InLoop(m) /\ pc'[m] \notin {"run", "send", "fill", "recv"}

\* the positions an iteration passes through, in their order: the top of the
\* loop up to the entry of _sync, the two send loops, the receive loop
LoopOrder ==
    {<<"run", "send">>, <<"run", "fill">>, <<"run", "recv">>, <<"send", "fill">>,
     <<"send", "recv">>, <<"send", "run">>, <<"fill", "recv">>, <<"fill", "run">>,
     <<"recv", "run">>}

\* C33: a module leaves its step loop only in the step in which its control
\* handler processes a quit frame.
C33_LoopEndsOnQuitOnly ==
    [][\A m \in Modules :
          Leaves(m) => (HandlesCtrl(m) /\ ctrl_in[m][1] = "quit")]_vars

\* C33 amended: an iteration passes through its positions in order, and a
\* module leaves the loop only when its control handler processes a quit
\* frame or when _sync raises: in the send loop on a destination that is no
\* longer in send_ids, in the receive loop on a source that is not in
\* recv_ids.
C33_LoopEndsOnQuitOrRaise ==
    [][\A m \in Modules :
          /\ (InLoop(m) /\ pc'[m] # pc[m] /\ ~Leaves(m)) => <<pc[m], pc'[m]>> \in LoopOrder
          /\ Leaves(m) =>
                \/ HandlesCtrl(m) /\ ctrl_in[m][1] = "quit" /\ pc'[m] = "done"
                \/ /\ pc[m] = "send" /\ pc'[m] = "exit"
                   /\ out_data[m][pos[m]].dst \notin Range(send_ids[m])
                \/ /\ pc[m] = "recv" /\ pc'[m] = "exit"
                   /\ sock_in[m] # <<>>
                   /\ sock_in[m][1].src \notin Range(recv_ids[m])]_vars

\* one module has left its loop on a quit frame after a full iteration, the
\* other on a raise in _sync
C33_Witness ==
    \E m \in mod_dict, o \in mod_dict :
        /\ pc[m] = "done" /\ step[m] > 0 /\ m \in joined
        /\ pc[o] = "exit"

\* C34: for every pair of modules in every net mode and every direction, a
\* connect call repeated with the same arguments leaves the registered
\* modules and connectivity objects, the edges of the routing table, the
\* nets and the modules' in and out peers as the first call left them; the
\* same holds of core.py's connect.
C34_ConnectIdempotent ==
    \A m_src \in Pairable, m_dest \in Pairable :
        /\ \A dir \in Dirs :
              LET t == connect(Man, m_src, m_dest, TheConn, dir)
                  u == connect(t, m_src, m_dest, TheConn, dir)
              IN /\ Cardinality(u.mods) = Cardinality(t.mods)
                 /\ Cardinality(u.conns) = Cardinality(t.conns)
                 /\ u.rt = t.rt
                 /\ u.net = t.net
                 /\ \A m \in Modules : Ins(u, m) = Ins(t, m) /\ Outs(u, m) = Outs(t, m)
                 /\ u.conn_dict = t.conn_dict
        /\ LET t == core_connect(CoreMan, m_src, m_dest, TheConn)
               u == core_connect(t, m_src, m_dest, TheConn)
           IN u = t

\* connect has made one edge from a full module to an in module, and the
\* call that made it changes nothing when it is repeated
C34_Witness ==
    /\ ret = <<"connect", "ok">>
    /\ Cardinality(routing_table) = 1
    /\ \E m_src \in Pairable, m_dest \in Pairable, dir \in Dirs :
          /\ m_src # m_dest
          /\ connect(Man, m_src, m_dest, TheConn, dir) = Man
          /\ net[m_src] = "full" /\ net[m_dest] = "in"

\* C35: after any connect calls on modules constructed with any net, each
\* module's out peers are its destinations in the routing table and its in
\* peers its sources, a module with an out peer has net 'out' or 'full', and
\* a module with an in peer has net 'in' or 'full'.
C35_MapsAgreeWithTable ==
    \A m \in Modules :
        /\ Range(out_ids[m]) = col_ids(routing_table, m)
        /\ Range(in_ids[m]) = row_ids(routing_table, m)
        /\ out_ids[m] # <<>> => net[m] \in {"out", "full"}
        /\ in_ids[m] # <<>> => net[m] \in {"in", "full"}

\* C36: between two invocations of the data handler of a running broker,
\* no edge awaited has an entry in data_to_route, every edge of the routing
\* table is awaited or has an entry, nothing else is, and no edge has two
\* entries.
C36_PendingAwaitedPartition ==
    \A b \in brok_dict :
        Serving(b) =>
            /\ Taken \cap recv_coords_list = {}
            /\ Taken \cup recv_coords_list = coords
            /\ \A i, j \in DOMAIN data_to_route :
                  (data_to_route[i].src = data_to_route[j].src
                   /\ data_to_route[i].dst = data_to_route[j].dst) => i = j

\* a round was delivered, and in the next one the broker holds the frame of
\* one edge and awaits the other while a second frame of the edge it holds
\* is on its socket
C36_Witness ==
    /\ \E d \in Modules : sock_in[d] # <<>>
    /\ Len(data_to_route) = 1
    /\ Cardinality(recv_coords_list) = 1
    /\ \E m \in mod_dict :
          /\ sock_out[m] # <<>>
          /\ MsgLen(sock_out[m][1]) = 2
          /\ <<m, sock_out[m][1].dst>> \in Taken

\* the frames the broker puts on d's socket in this step
Emitted(d) == SubSeq(sock_in'[d], Len(sock_in[d]) + 1, Len(sock_in'[d]))

\* C37: the broker changes its buffer and the modules' sockets only in a
\* handler invocation. What it emits to d is, frame for frame, an entry of
\* the round addressed to d with the entry's source and payload, and no two
\* frames it emits to d have one source; an entry is the source, the
\* destination and the payload of a frame the handler accepted. When it
\* emits, it emits every entry of the round and empties the buffer, so no
\* entry is emitted again; when it does not, it keeps every entry.
C37_NoFabrication ==
    [][/\ (\A m \in mod_dict : ~Handles(m)) => UNCHANGED <<sock_in, data_to_route>>
       /\ \A m \in mod_dict :
             Handles(m) =>
                LET f == sock_out[m][1]
                    round == IF Accepts(m, f) THEN Append(data_to_route, Entry(m, f))
                             ELSE data_to_route
                IN /\ \A d \in Modules :
                         /\ SubSeq(sock_in'[d], 1, Len(sock_in[d])) = sock_in[d]
                         /\ \A k \in DOMAIN Emitted(d) :
                               \E i \in DOMAIN round :
                                   /\ round[i].dst = d
                                   /\ round[i].src = Emitted(d)[k].src
                                   /\ round[i].data = Emitted(d)[k].data
                         /\ \A k, l \in DOMAIN Emitted(d) :
                               Emitted(d)[k].src = Emitted(d)[l].src => k = l
                   /\ IF \E d \in Modules : Emitted(d) # <<>>
                      THEN /\ data_to_route' = <<>>
                           /\ \A i \in DOMAIN round :
                                 \E k \in DOMAIN Emitted(round[i].dst) :
                                     Emitted(round[i].dst)[k].src = round[i].src
                      ELSE data_to_route' = round]_vars

\* a round of two frames, one with a payload and one without, was emitted
\* to M3 and the buffer is empty again
C37_Witness ==
    /\ Len(sock_in["M3"]) = 2
    /\ {sock_in["M3"][k].src : k \in 1..2} = {"M1", "M2"}
    /\ {sock_in["M3"][k].data : k \in 1..2} = {NONE, 0}
    /\ data_to_route = <<>>
    /\ recv_coords_list = coords

\* module m has net 'full', a source and a destination
FullBoth(m) == m \in mod_dict /\ net[m] = "full" /\ in_ids[m] # <<>> /\ out_ids[m] # <<>>

\* C38: two modules that are both full with an incoming and an outgoing
\* edge never differ by more than one in the _sync calls they have completed.
C38_FullModulesInStep ==
    \A m \in Modules, p \in Modules :
        (FullBoth(m) /\ FullBoth(p)) => step[m] - step[p] <= 1

\* stop() takes a module off its list in this step
Removes == Len(remaining') < Len(remaining)

\* C39: stop() takes a module off its list only in the step in which it
\* receives that module's ack, only a module it has sent quit and has not
\* joined before, and it joins the module in the same step; it joins none
\* in any other step, and a module it has joined has handled a quit frame.
C39_JoinedOnAckOnce ==
    [][/\ Removes =>
             /\ acks # <<>> /\ acks' = Tail(acks)
             /\ acks[1] \in Range(remaining)
             /\ remaining' = Remove(remaining, acks[1])
             /\ acks[1] \in quits
             /\ acks[1] \notin joined
             /\ joined' = joined \cup {acks[1]}
       /\ joined' # joined => Removes
       /\ \A m \in joined' : pc'[m] = "done"]_vars

\* one module was joined on its ack; the other, now at the head, has been
\* sent quit twice and has not handled it yet
C39_Witness ==
    /\ man_pc = "poll"
    /\ Len(remaining) = 1
    /\ Cardinality(joined) = 1
    /\ quits = mod_dict
    /\ ctrl_in[remaining[1]] = <<"quit", "quit">>
    /\ acks = <<>>

\* the step of module m in base.py, and the same step in core.py
BaseStep(m) == RunStep(m) \/ SyncSend(m) \/ SyncRecv(m)

CoreStep(m) == CoreRunStep(m) \/ CoreSyncSend(m) \/ CoreSyncRecv(m)

\* the outbound buffer of m's step names no entry for one of its out_ids
Omitted(m) ==
    \E d \in Range(out_ids[m]) : \A k \in 1..Len(out_data'[m]) : out_data'[m][k].dst # d

\* a payload of m's step is None: one it sends, or the one it receives
NonePayload(m) ==
    \/ \E k \in 1..Len(out_data'[m]) : out_data'[m][k].data = NONE
    \/ pc[m] = "recv" /\ sock_in[m] # <<>> /\ Head(sock_in[m]).data = NONE

\* the entry m's step sends names a destination that has left its send list:
\* one named twice, or one that is none of its out_ids
NamedAgain(m) ==
    pc[m] = "send" /\ ~Expected(send_ids[m], out_data[m][pos[m]].dst)

\* C40 as the specification states it: a step of base.py's loop is the same
\* step of core.py's loop (the same frame handed to the broker, the same
\* inbound buffer, the same place in the loop) unless the outbound buffer
\* omits a destination or a payload is None.
C40_SameUnlessOmittedOrNone ==
    [][\A m \in Modules :
          BaseStep(m) /\ ~Omitted(m) /\ ~NonePayload(m) => CoreStep(m)]_vars

\* C40, amended: a step of base.py's loop is the same step of core.py's loop
\* unless the outbound buffer omits a destination, a payload is None, or the
\* buffer names a destination that is no longer in the send list, where
\* base.py raises and core.py goes on; and wherever core.py's loop can take
\* a step, base.py's can.
C40_SameUnlessOmittedNoneOrNamedAgain ==
    [][\A m \in Modules :
          /\ BaseStep(m) /\ ~Omitted(m) /\ ~NonePayload(m) /\ ~NamedAgain(m) => CoreStep(m)
          /\ ENABLED (CoreStep(m) /\ UNCHANGED send_ids) => ENABLED BaseStep(m)]_vars

\* a module of a complete, None-free buffer has sent it and received every
\* awaited frame: both loops have filled the same inbound buffer
C40_Witness ==
    /\ putter = "MyModule"
    /\ pc["M3"] = "run"
    /\ Len(in_data["M3"]) = 2
    /\ step["M1"] >= 2

====
